---- MODULE Spec2Model ----
(***************************************************************************)
(* Model of src/main.py: the Cloud Function transcribe_video_from_gcs.     *)
(*                                                                         *)
(* One invocation is a sequential run through the function body.  The      *)
(* program counter pc[i] names the statement group invocation i executes   *)
(* next; every collaborator call (storage, ffmpeg, Speech-to-Text, Gemini) *)
(* either succeeds or raises.  Object names, content types and local paths *)
(* are sequences of one-character strings, so that os.path.basename,       *)
(* os.path.splitext, os.path.join and str.startswith are computed          *)
(* character by character; transcripts are strings built with \o.          *)
(***************************************************************************)
EXTENDS Integers, Sequences, FiniteSets, TLC

VARIABLES
    active,             \* the invocations that were started
    event,              \* cloud_event.data of each invocation (lines 27-30)
    environ,            \* os.environ of each invocation (lines 36-38)
    pc,                 \* the statement group each invocation executes next
    paths,              \* the five paths of lines 56-61
    fs,                 \* regular files under TEMP_DIR: local path -> content
    out,                \* objects of TRANSCRIPTION_OUTPUT_BUCKET: key -> content
    effects,            \* per invocation, collaborator calls and os.remove calls made
    exc,                \* the exception in flight ("None" when there is none)
    failed,             \* the statement group whose failure started the unwinding
    cleanupRuns,        \* how many times the finally block (lines 210-217) ran
    log,                \* warnings and errors logged by each invocation
    response,           \* response.results of operation.result (line 118)
    transcript_content, \* the local of lines 126-148
    analysis_content    \* the local of line 194

vars == <<active, event, environ, pc, paths, fs, out, effects, exc, failed,
          cleanupRuns, log, response, transcript_content, analysis_content>>

----------------------------------------------------------------------------
(* Strings as sequences of characters, and the str / os.path functions used *)

\* str.startswith(prefix)
StartsWith(s, prefix) ==
    /\ Len(prefix) <= Len(s)
    /\ SubSeq(s, 1, Len(prefix)) = prefix

\* str.rfind(c) + 1: the 1-based index of the last c in s, 0 when there is none
RFind(s, c) ==
    LET hits == {k \in 1..Len(s) : s[k] = c}
    IN  IF hits = {} THEN 0 ELSE CHOOSE k \in hits : \A j \in hits : j <= k

\* os.path.basename(p): what follows the last "/"
Basename(p) == SubSeq(p, RFind(p, "/") + 1, Len(p))

\* Variant of SplitextRoot: cuts at the first "." of the file name, as
\* p.split('.')[0] would
SplitextRootFirstDot(p) ==
    LET sepIndex == RFind(p, "/")
        dots == {k \in (sepIndex + 1)..Len(p) : p[k] = "."}
    IN  IF dots = {} THEN p
        ELSE SubSeq(p, 1, (CHOOSE k \in dots : \A j \in dots : k <= j) - 1)

\* os.path.splitext(p)[0]: p without its extension; the extension starts at the
\* last "." after the last "/", unless only dots precede it in the file name
SplitextRoot(p) ==
    LET sepIndex == RFind(p, "/")
        dotIndex == RFind(p, ".")
    IN  IF /\ dotIndex > sepIndex
           /\ \E k \in (sepIndex + 1)..(dotIndex - 1) : p[k] # "."
        THEN SubSeq(p, 1, dotIndex - 1)
        ELSE p

\* os.path.join(a, b)
PathJoin(a, b) ==
    IF StartsWith(b, <<"/">>) THEN b
    ELSE IF a = <<>> \/ a[Len(a)] = "/" THEN a \o b
    ELSE a \o <<"/">> \o b

TEMP_DIR == <<"/", "t", "m", "p">>

VideoPrefix == <<"v", "i", "d", "e", "o", "/">>

\* os.environ.get(name, default); os.environ.get(name) is None when name is unset
EnvGet(env, name, default) == IF name \in DOMAIN env THEN env[name] ELSE default

DefaultInputBucket == "your-input-video-bucket"

INPUT_VIDEO_BUCKET(i) == EnvGet(environ[i], "INPUT_VIDEO_BUCKET", DefaultInputBucket)

\* Variant of CredentialMissing: tests "GEMINI_API_KEY is None" and so lets the
\* empty string through
CredentialUnset(env) == "GEMINI_API_KEY" \notin DOMAIN env

\* not GEMINI_API_KEY: the variable is unset (None) or set to the empty string
CredentialMissing(env) ==
    \/ "GEMINI_API_KEY" \notin DOMAIN env
    \/ env["GEMINI_API_KEY"] = ""

\* Variant of BucketMismatch: compares with the built-in default and ignores
\* the INPUT_VIDEO_BUCKET the environment sets
BucketMismatchIgnoresEnv(i) == event[i].bucket # DefaultInputBucket

\* bucket_name != INPUT_VIDEO_BUCKET
BucketMismatch(i) == event[i].bucket # INPUT_VIDEO_BUCKET(i)

\* Variant of IsVideo: tests startswith('video'), without the slash
IsVideoNoSlash(mime_type) == StartsWith(mime_type, <<"v", "i", "d", "e", "o">>)

\* mime_type.startswith('video/')
IsVideo(mime_type) == StartsWith(mime_type, VideoPrefix)

\* lines 56-61
ResolvePaths(file_name) ==
    LET base_file_name == SplitextRoot(Basename(file_name))
    IN  [ local_video_path    |-> PathJoin(TEMP_DIR, Basename(file_name)),
          local_audio_path    |-> PathJoin(TEMP_DIR, base_file_name \o <<".", "f", "l", "a", "c">>),
          gcs_audio_path      |-> <<"a", "u", "d", "i", "o", "/">> \o base_file_name
                                    \o <<".", "f", "l", "a", "c">>,
          gcs_transcript_path |-> <<"t", "r", "a", "n", "s", "c", "r", "i", "p", "t", "s", "/">>
                                    \o base_file_name \o <<".", "t", "x", "t">>,
          gcs_analysis_path   |-> <<"a", "n", "a", "l", "y", "s", "i", "s", "/">>
                                    \o base_file_name
                                    \o <<"_", "a", "n", "a", "l", "y", "s", "i", "s", ".", "t", "x", "t">> ]

NoPaths ==
    [ local_video_path |-> <<>>, local_audio_path |-> <<>>, gcs_audio_path |-> <<>>,
      gcs_transcript_path |-> <<>>, gcs_analysis_path |-> <<>> ]

----------------------------------------------------------------------------
(* Transcript reconstruction, lines 126-148                                 *)

EmptyMap == [k \in {} |-> <<>>]

\* str(n) of a natural number, as the f-string of line 144 formats speaker_tag
RECURSIVE IntToStr(_)
IntToStr(n) ==
    LET digit == <<"0", "1", "2", "3", "4", "5", "6", "7", "8", "9">>[(n % 10) + 1]
    IN  IF n < 10 THEN digit ELSE IntToStr(n \div 10) \o digit

\* ' '.join(words)
RECURSIVE Join(_)
Join(words) ==
    IF words = <<>> THEN ""
    ELSE IF Len(words) = 1 THEN words[1]
    ELSE words[1] \o " " \o Join(Tail(words))

\* lines 132-136: one word_info goes to the bucket of its speaker_tag
AppendWord(speaker_transcripts, word_info) ==
    LET speaker_tag == word_info.speaker_tag
        created == IF speaker_tag \in DOMAIN speaker_transcripts
                   THEN speaker_transcripts
                   ELSE (speaker_tag :> <<>>) @@ speaker_transcripts
    IN  [created EXCEPT ![speaker_tag] = Append(@, word_info.word)]

\* line 131: for word_info in result.alternatives[0].words
RECURSIVE ScanWords(_, _)
ScanWords(words, speaker_transcripts) ==
    IF words = <<>> THEN speaker_transcripts
    ELSE ScanWords(Tail(words), AppendWord(speaker_transcripts, Head(words)))

\* Variant of ScanResult: line 139 appends the transcript without the "\n"
ScanResultNoNewline(st, result) ==
    IF result.words # <<>>
    THEN [st EXCEPT !.speaker_transcripts = ScanWords(result.words, @)]
    ELSE [st EXCEPT !.transcript_content = @ \o result.transcript]

\* lines 130-139: the body of the scan loop, on the pair of locals
ScanResult(st, result) ==
    IF result.words # <<>>
    THEN [st EXCEPT !.speaker_transcripts = ScanWords(result.words, @)]
    ELSE [st EXCEPT !.transcript_content = @ \o result.transcript \o "\n"]

\* line 128: for i, result in enumerate(response.results)
RECURSIVE ScanResults(_, _)
ScanResults(results, st) ==
    IF results = <<>> THEN st
    ELSE ScanResults(Tail(results), ScanResult(st, Head(results)))

\* Variant of SortedKeys: sorted(..., reverse=True)
RECURSIVE SortedKeysDescending(_)
SortedKeysDescending(keys) ==
    IF keys = {} THEN <<>>
    ELSE LET greatest == CHOOSE k \in keys : \A j \in keys : j <= k
         IN  <<greatest>> \o SortedKeysDescending(keys \ {greatest})

\* sorted(speaker_transcripts.keys())
RECURSIVE SortedKeys(_)
SortedKeys(keys) ==
    IF keys = {} THEN <<>>
    ELSE LET least == CHOOSE k \in keys : \A j \in keys : k <= j
         IN  <<least>> \o SortedKeys(keys \ {least})

\* lines 143-144: one "Speaker <tag>: <words>\n" line is appended per sorted key
RECURSIVE EmitSpeakerLines(_, _, _)
EmitSpeakerLines(transcript, speaker_transcripts, tags) ==
    IF tags = <<>> THEN transcript
    ELSE EmitSpeakerLines(
            transcript \o "Speaker " \o IntToStr(Head(tags)) \o ": "
                       \o Join(speaker_transcripts[Head(tags)]) \o "\n",
            speaker_transcripts, Tail(tags))

\* lines 147-148: the second fallback loop
RECURSIVE FallbackLoop(_, _)
FallbackLoop(transcript, results) ==
    IF results = <<>> THEN transcript
    ELSE FallbackLoop(transcript \o Head(results).transcript \o "\n", Tail(results))

\* lines 126-127 and 128-139: the locals after the scan loop
Scanned(results) ==
    ScanResults(results, [transcript_content |-> "", speaker_transcripts |-> EmptyMap])

\* Variant of ReconstructTranscript: the speaker branch starts from an empty
\* string, dropping what the scan loop accumulated
ReconstructTranscriptDiscarding(results) ==
    LET st == Scanned(results)
    IN  IF DOMAIN st.speaker_transcripts # {}
        THEN EmitSpeakerLines("", st.speaker_transcripts,
                              SortedKeys(DOMAIN st.speaker_transcripts))
        ELSE IF st.transcript_content = "" /\ results # <<>>
        THEN FallbackLoop(st.transcript_content, results)
        ELSE st.transcript_content

\* Variant of ReconstructTranscript: line 145 reads "elif response.results",
\* so the second loop also runs after the scan loop accumulated raw transcripts
ReconstructTranscriptAlwaysFallsBack(results) ==
    LET st == Scanned(results)
    IN  IF DOMAIN st.speaker_transcripts # {}
        THEN EmitSpeakerLines(st.transcript_content, st.speaker_transcripts,
                              SortedKeys(DOMAIN st.speaker_transcripts))
        ELSE IF results # <<>>
        THEN FallbackLoop(st.transcript_content, results)
        ELSE st.transcript_content

\* lines 126-148: transcript_content as it is uploaded
ReconstructTranscript(results) ==
    LET st == Scanned(results)
    IN  IF DOMAIN st.speaker_transcripts # {}
        THEN EmitSpeakerLines(st.transcript_content, st.speaker_transcripts,
                              SortedKeys(DOMAIN st.speaker_transcripts))
        ELSE IF st.transcript_content = "" /\ results # <<>>
        THEN FallbackLoop(st.transcript_content, results)
        ELSE st.transcript_content

----------------------------------------------------------------------------
(* Inputs: events, environments and collaborator answers                    *)

Clip1 == <<"c", "l", "i", "p", "1">>

\* data['name']: a plain video, a nested one, one whose extension is already
\* .flac, a folder placeholder (empty base name) and a name with no extension
EventNames ==
    { Clip1 \o <<".", "m", "p", "4">>,
      <<"c", "a", "l", "l", "s", "/">> \o Clip1 \o <<".", "m", "p", "4">>,
      Clip1 \o <<".", "f", "l", "a", "c">>,
      <<"c", "a", "l", "l", "s", "/">>,
      Clip1 }

\* data['contentType']
ContentTypes ==
    { <<"v", "i", "d", "e", "o", "/", "m", "p", "4">>,
      <<"a", "u", "d", "i", "o", "/", "f", "l", "a", "c">>,
      <<"v", "i", "d", "e", "o">>,
      <<>> }

\* data['bucket']
EventBuckets == {"in", "other", DefaultInputBucket}

Events == [bucket : EventBuckets, name : EventNames, contentType : ContentTypes]

\* os.environ: GEMINI_API_KEY unset, empty or set; INPUT_VIDEO_BUCKET unset or set
Environs ==
    { key @@ bucket :
        key \in {EmptyMap, "GEMINI_API_KEY" :> "", "GEMINI_API_KEY" :> "secret"},
        bucket \in {EmptyMap, "INPUT_VIDEO_BUCKET" :> "in"} }

WordInfo(w, tag) == [word |-> w, speaker_tag |-> tag]

\* a result whose top alternative carries word-level speaker tags
Worded(words) ==
    [words |-> words, transcript |-> Join([k \in 1..Len(words) |-> words[k].word])]

\* a result whose top alternative carries no words
Raw(text) == [words |-> <<>>, transcript |-> text]

\* response.results as the pipeline receives it: nothing, raw transcripts only,
\* diarized words only, and both
PipelineResponses ==
    { <<>>,
      <<Raw("good morning")>>,
      <<Raw("")>>,
      <<Worded(<<WordInfo("hello", 1), WordInfo("there", 1)>>),
        Worded(<<WordInfo("hi", 2)>>)>>,
      <<Raw("good morning"), Worded(<<WordInfo("hi", 2), WordInfo("hello", 1)>>)>> }

\* line 111: the recognition request asks for at most two speakers
max_speaker_count == 2

SpeakerTags == 1..max_speaker_count

Words == {"hello", "there", "hi"}

WordInfos == {WordInfo(w, tag) : w \in Words, tag \in SpeakerTags}

RawTranscripts == {"", "good morning"}

\* the size of a response: its word-less results plus the words of the others
MaxResponseSize == 3

\* the results of size n: n tagged words, or (size 1) a raw transcript
ResultsOfSize(n) ==
    {Worded(ws) : ws \in [1..n -> WordInfos]}
        \cup (IF n = 1 THEN {Raw(text) : text \in RawTranscripts} ELSE {})

RECURSIVE ResponsesOfSize(_)
ResponsesOfSize(n) ==
    IF n = 0 THEN {<<>>}
    ELSE UNION { { <<result>> \o rest :
                      result \in ResultsOfSize(k), rest \in ResponsesOfSize(n - k) } :
                 k \in 1..n }

\* response.results, every sequence up to the size bound
Responses == UNION {ResponsesOfSize(n) : n \in 0..MaxResponseSize}

\* gemini_response.text
AnalysisTexts == {"", "analysis"}

----------------------------------------------------------------------------
(* The local file system and the output bucket                              *)

\* TEMP_DIR itself, as the paths /tmp/, /tmp/. and /tmp/.. name it
IsDirectory(path) ==
    path \in { TEMP_DIR \o <<"/">>, TEMP_DIR \o <<"/", ".">>, TEMP_DIR \o <<"/", ".", ".">> }

\* os.path.exists(path)
Exists(files, path) == path \in DOMAIN files \/ IsDirectory(path)

\* the file at path is created or overwritten
WriteFile(files, path, content) == (path :> content) @@ files

\* os.remove(path) of a regular file
RemoveFile(files, path) == [q \in (DOMAIN files) \ {path} |-> files[q]]

Effect(op, target) == [op |-> op, target |-> target]

Terminal == {"Skipped", "Done", "Failed"}

\* the invocations that can be started
Invocations == {1, 2}

----------------------------------------------------------------------------
(* The invocation, statement group by statement group                       *)

Init ==
    /\ active = {1}
    /\ event \in [active -> Events]
    /\ environ \in [active -> Environs]
    /\ pc = [i \in active |-> "CheckCredential"]
    /\ paths = [i \in active |-> NoPaths]
    /\ fs = EmptyMap
    /\ out = EmptyMap
    /\ effects = [i \in active |-> <<>>]
    /\ exc = [i \in active |-> "None"]
    /\ failed = [i \in active |-> "None"]
    /\ cleanupRuns = [i \in active |-> 0]
    /\ log = [i \in active |-> <<>>]
    /\ response = [i \in active |-> <<>>]
    /\ transcript_content = [i \in active |-> ""]
    /\ analysis_content = [i \in active |-> ""]

\* invocation i was started and executes statement group label next
At(i, label) == i \in active /\ pc[i] = label

\* an exception e leaves statement group stage, inside the try of line 63
Raise(i, stage, e) ==
    /\ exc' = [exc EXCEPT ![i] = e]
    /\ failed' = [failed EXCEPT ![i] = stage]
    /\ pc' = [pc EXCEPT ![i] = "Except"]

Goto(i, label) ==
    /\ pc' = [pc EXCEPT ![i] = label]
    /\ UNCHANGED <<exc, failed>>

Called(i, op, target) == effects' = [effects EXCEPT ![i] = Append(@, Effect(op, target))]

Logged(i, line) == log' = [log EXCEPT ![i] = Append(@, line)]

\* lines 41-43: raised before the try, so no handler and no finally block runs
CheckCredential(i) ==
    /\ At(i, "CheckCredential")
    /\ IF CredentialMissing(environ[i])
       THEN /\ Logged(i, "error: GEMINI_API_KEY environment variable not set")
            /\ exc' = [exc EXCEPT ![i] = "ValueError"]
            /\ failed' = [failed EXCEPT ![i] = "CheckCredential"]
            /\ pc' = [pc EXCEPT ![i] = "Failed"]
       ELSE /\ Goto(i, "CheckBucket")
            /\ UNCHANGED log
    /\ UNCHANGED <<active, event, environ, paths, fs, out, effects, cleanupRuns,
                   response, transcript_content, analysis_content>>

\* lines 45-48: return before the try
CheckBucket(i) ==
    /\ At(i, "CheckBucket")
    /\ IF BucketMismatch(i)
       THEN /\ Logged(i, "warning: ignoring event from unexpected bucket")
            /\ Goto(i, "Skipped")
       ELSE /\ Goto(i, "CheckContentType")
            /\ UNCHANGED log
    /\ UNCHANGED <<active, event, environ, paths, fs, out, effects, cleanupRuns,
                   response, transcript_content, analysis_content>>

\* Variant of CheckContentType: a non-video file is rejected with an error
\* instead of being skipped
CheckContentTypeRaises(i) ==
    /\ At(i, "CheckContentType")
    /\ IF ~IsVideo(event[i].contentType)
       THEN /\ Logged(i, "warning: skipping non-video file")
            /\ exc' = [exc EXCEPT ![i] = "ValueError"]
            /\ failed' = [failed EXCEPT ![i] = "CheckContentType"]
            /\ pc' = [pc EXCEPT ![i] = "Failed"]
       ELSE /\ Goto(i, "ConstructPaths")
            /\ UNCHANGED log
    /\ UNCHANGED <<active, event, environ, paths, fs, out, effects, cleanupRuns,
                   response, transcript_content, analysis_content>>

\* lines 50-53: return before the try
CheckContentType(i) ==
    /\ At(i, "CheckContentType")
    /\ IF ~IsVideo(event[i].contentType)
       THEN /\ Logged(i, "warning: skipping non-video file")
            /\ Goto(i, "Skipped")
       ELSE /\ Goto(i, "ConstructPaths")
            /\ UNCHANGED log
    /\ UNCHANGED <<active, event, environ, paths, fs, out, effects, cleanupRuns,
                   response, transcript_content, analysis_content>>

\* lines 55-61
ConstructPaths(i) ==
    /\ At(i, "ConstructPaths")
    /\ paths' = [paths EXCEPT ![i] = ResolvePaths(event[i].name)]
    /\ Goto(i, "Download")
    /\ UNCHANGED <<active, event, environ, fs, out, effects, cleanupRuns, log,
                   response, transcript_content, analysis_content>>

\* lines 64-69: blob.download_to_filename(local_video_path)
Download(i) ==
    LET video == paths[i].local_video_path
    IN  /\ At(i, "Download")
        /\ Called(i, "download", video)
        /\ \/ /\ ~IsDirectory(video)
              /\ fs' = WriteFile(fs, video, "video")
              /\ Goto(i, "Transcode")
           \/ \* the object is missing or unreadable; the local file the client
              \* opened for writing is removed again or left behind
              /\ ~IsDirectory(video)
              /\ fs' \in {fs, RemoveFile(fs, video), WriteFile(fs, video, "partial")}
              /\ Raise(i, "Download", "StorageError")
           \/ \* local_video_path names the scratch directory: open() raises
              /\ IsDirectory(video)
              /\ fs' = fs
              /\ Raise(i, "Download", "IsADirectoryError")
        /\ UNCHANGED <<active, event, environ, paths, out, cleanupRuns, log,
                       response, transcript_content, analysis_content>>

\* Variant of Transcode: the handler of lines 89-91 logs the non-zero exit but
\* does not re-raise, so the run goes on to the audio upload
TranscodeSwallowsFailure(i) ==
    LET video == paths[i].local_video_path
        audio == paths[i].local_audio_path
    IN  /\ At(i, "Transcode")
        /\ Called(i, "ffmpeg", audio)
        /\ \/ /\ video \in DOMAIN fs
              /\ ~Exists(fs, audio)
              /\ \E content \in {"flac", ""} :
                    /\ fs' = WriteFile(fs, audio, content)
                    /\ IF content = ""
                       THEN Logged(i, "warning: FFmpeg extracted an empty audio file")
                       ELSE UNCHANGED log
              /\ Goto(i, "UploadAudio")
           \/ /\ fs' \in {fs} \cup (IF Exists(fs, audio) THEN {}
                                    ELSE {WriteFile(fs, audio, "partial")})
              /\ Logged(i, "error: FFmpeg command failed")
              /\ failed' = [failed EXCEPT ![i] = "Transcode"]
              /\ pc' = [pc EXCEPT ![i] = "UploadAudio"]
              /\ UNCHANGED exc
           \/ /\ UNCHANGED <<fs, log>>
              /\ Raise(i, "Transcode", "FileNotFoundError")
        /\ UNCHANGED <<active, event, environ, paths, out, cleanupRuns,
                       response, transcript_content, analysis_content>>

\* Variant of Transcode: a zero-byte output with exit status 0 is treated as
\* fatal, "raise ValueError" in place of the warning of lines 87-88
TranscodeRejectsEmptyAudio(i) ==
    LET video == paths[i].local_video_path
        audio == paths[i].local_audio_path
    IN  /\ At(i, "Transcode")
        /\ Called(i, "ffmpeg", audio)
        /\ \/ /\ video \in DOMAIN fs
              /\ ~Exists(fs, audio)
              /\ \E content \in {"flac", ""} :
                    /\ fs' = WriteFile(fs, audio, content)
                    /\ IF content = ""
                       THEN /\ Logged(i, "warning: FFmpeg extracted an empty audio file")
                            /\ Raise(i, "Transcode", "ValueError")
                       ELSE /\ UNCHANGED log
                            /\ Goto(i, "UploadAudio")
           \/ /\ fs' \in {fs} \cup (IF Exists(fs, audio) THEN {}
                                    ELSE {WriteFile(fs, audio, "partial")})
              /\ Logged(i, "error: FFmpeg command failed")
              /\ Raise(i, "Transcode", "CalledProcessError")
           \/ /\ UNCHANGED <<fs, log>>
              /\ Raise(i, "Transcode", "FileNotFoundError")
        /\ UNCHANGED <<active, event, environ, paths, out, cleanupRuns,
                       response, transcript_content, analysis_content>>

\* lines 71-91: subprocess.run(ffmpeg_command, check=True, capture_output=True, text=True)
Transcode(i) ==
    LET video == paths[i].local_video_path
        audio == paths[i].local_audio_path
    IN  /\ At(i, "Transcode")
        /\ Called(i, "ffmpeg", audio)
        /\ \/ \* exit status 0; the command has no -y, so ffmpeg writes no
              \* output that exists already (its input included)
              /\ video \in DOMAIN fs
              /\ ~Exists(fs, audio)
              /\ \E content \in {"flac", ""} :
                    /\ fs' = WriteFile(fs, audio, content)
                    /\ IF content = ""
                       THEN Logged(i, "warning: FFmpeg extracted an empty audio file")
                       ELSE UNCHANGED log
              /\ Goto(i, "UploadAudio")
           \/ \* non-zero exit status: lines 89-91 log and re-raise
              /\ fs' \in {fs} \cup (IF Exists(fs, audio) THEN {}
                                    ELSE {WriteFile(fs, audio, "partial")})
              /\ Logged(i, "error: FFmpeg command failed")
              /\ Raise(i, "Transcode", "CalledProcessError")
           \/ \* the ffmpeg binary cannot be started
              /\ UNCHANGED <<fs, log>>
              /\ Raise(i, "Transcode", "FileNotFoundError")
        /\ UNCHANGED <<active, event, environ, paths, out, cleanupRuns,
                       response, transcript_content, analysis_content>>

\* Variant of UploadAudio: a failed upload is tried again, a few times
UploadAudioRetries(i) ==
    LET audio == paths[i].local_audio_path
        key == paths[i].gcs_audio_path
    IN  /\ At(i, "UploadAudio")
        /\ Called(i, "upload", key)
        /\ \/ /\ audio \in DOMAIN fs
              /\ out' = WriteFile(out, key, fs[audio])
              /\ Goto(i, "Recognize")
           \/ /\ Len(effects[i]) < 6
              /\ UNCHANGED <<out, pc, exc, failed>>
        /\ UNCHANGED <<active, event, environ, paths, fs, cleanupRuns, log,
                       response, transcript_content, analysis_content>>

\* lines 93-97: audio_blob.upload_from_filename(local_audio_path)
UploadAudio(i) ==
    LET audio == paths[i].local_audio_path
        key == paths[i].gcs_audio_path
    IN  /\ At(i, "UploadAudio")
        /\ Called(i, "upload", key)
        /\ \/ /\ audio \in DOMAIN fs
              /\ out' = WriteFile(out, key, fs[audio])
              /\ Goto(i, "Recognize")
           \/ /\ UNCHANGED out
              /\ Raise(i, "UploadAudio",
                       IF audio \in DOMAIN fs THEN "StorageError" ELSE "FileNotFoundError")
        /\ UNCHANGED <<active, event, environ, paths, fs, cleanupRuns, log,
                       response, transcript_content, analysis_content>>

\* Variant of Recognize without lines 121-122: an empty response is not logged
RecognizeSilent(i) ==
    /\ At(i, "Recognize")
    /\ Called(i, "recognize", paths[i].gcs_audio_path)
    /\ \/ \E results \in PipelineResponses :
            /\ response' = [response EXCEPT ![i] = results]
            /\ UNCHANGED log
            /\ Goto(i, "Reconstruct")
       \/ \E e \in {"RecognitionError", "TimeoutError"} :
            /\ UNCHANGED <<response, log>>
            /\ Raise(i, "Recognize", e)
    /\ UNCHANGED <<active, event, environ, paths, fs, out, cleanupRuns,
                   transcript_content, analysis_content>>

\* lines 99-124: long_running_recognize and operation.result(timeout=600)
Recognize(i) ==
    /\ At(i, "Recognize")
    /\ Called(i, "recognize", paths[i].gcs_audio_path)
    /\ \/ \E results \in PipelineResponses :
            /\ response' = [response EXCEPT ![i] = results]
            /\ IF results = <<>>
               THEN Logged(i, "warning: Speech-to-Text API returned no transcription results")
               ELSE UNCHANGED log
            /\ Goto(i, "Reconstruct")
       \/ \E e \in {"RecognitionError", "TimeoutError"} :
            /\ UNCHANGED <<response, log>>
            /\ Raise(i, "Recognize", e)
    /\ UNCHANGED <<active, event, environ, paths, fs, out, cleanupRuns,
                   transcript_content, analysis_content>>

\* the warning of line 146 and the error of line 154
ReconstructLog(results) ==
    LET st == Scanned(results)
    IN  (IF DOMAIN st.speaker_transcripts = {} /\ st.transcript_content = "" /\ results # <<>>
         THEN <<"warning: diarization did not yield word-level info">> ELSE <<>>)
        \o (IF ReconstructTranscript(results) = ""
            THEN <<"error: final transcript_content is empty">> ELSE <<>>)

\* lines 126-156
Reconstruct(i) ==
    /\ At(i, "Reconstruct")
    /\ transcript_content' = [transcript_content EXCEPT ![i] = ReconstructTranscript(response[i])]
    /\ log' = [log EXCEPT ![i] = @ \o ReconstructLog(response[i])]
    /\ Goto(i, "UploadTranscript")
    /\ UNCHANGED <<active, event, environ, paths, fs, out, effects, cleanupRuns,
                   response, analysis_content>>

\* lines 158-161: transcript_blob.upload_from_string(transcript_content)
UploadTranscript(i) ==
    LET key == paths[i].gcs_transcript_path
    IN  /\ At(i, "UploadTranscript")
        /\ Called(i, "upload", key)
        /\ \/ /\ out' = WriteFile(out, key, transcript_content[i])
              /\ Goto(i, "Analyze")
           \/ /\ UNCHANGED out
              /\ Raise(i, "UploadTranscript", "StorageError")
        /\ UNCHANGED <<active, event, environ, paths, fs, cleanupRuns, log,
                       response, transcript_content, analysis_content>>

\* lines 163-197: model.generate_content(full_prompt) and gemini_response.text;
\* the prompt is the fixed instructions followed by transcript_content, and its
\* length (lines 184-188) is only logged
Analyze(i) ==
    /\ At(i, "Analyze")
    /\ Called(i, "llm", transcript_content[i])
    /\ \/ \E text \in AnalysisTexts :
            /\ analysis_content' = [analysis_content EXCEPT ![i] = text]
            /\ Goto(i, "UploadAnalysis")
       \/ /\ UNCHANGED analysis_content
          /\ Raise(i, "Analyze", "AnalysisError")
    /\ UNCHANGED <<active, event, environ, paths, fs, out, cleanupRuns, log,
                   response, transcript_content>>

\* lines 199-202: analysis_blob.upload_from_string(analysis_content)
UploadAnalysis(i) ==
    LET key == paths[i].gcs_analysis_path
    IN  /\ At(i, "UploadAnalysis")
        /\ Called(i, "upload", key)
        /\ \/ /\ out' = WriteFile(out, key, analysis_content[i])
              /\ Goto(i, "Finally")
           \/ /\ UNCHANGED out
              /\ Raise(i, "UploadAnalysis", "StorageError")
        /\ UNCHANGED <<active, event, environ, paths, fs, cleanupRuns, log,
                       response, transcript_content, analysis_content>>

\* lines 204-206: e.stderr is a str (text=True on line 83), so e.stderr.decode()
\* raises AttributeError before anything is logged; that error replaces the
\* CalledProcessError and the finally block runs
HandleCalledProcessError(i) ==
    /\ At(i, "Except")
    /\ exc[i] = "CalledProcessError"
    /\ exc' = [exc EXCEPT ![i] = "AttributeError"]
    /\ pc' = [pc EXCEPT ![i] = "Finally"]
    /\ UNCHANGED <<active, event, environ, paths, fs, out, effects, failed, cleanupRuns,
                   log, response, transcript_content, analysis_content>>

\* Variant of HandleException: the cleanup is not in a finally block, so the
\* re-raised error leaves the function without it
HandleExceptionSkipsFinally(i) ==
    /\ At(i, "Except")
    /\ exc[i] # "CalledProcessError"
    /\ Logged(i, "error: error during transcription or analysis process")
    /\ pc' = [pc EXCEPT ![i] = "Failed"]
    /\ UNCHANGED <<active, event, environ, paths, fs, out, effects, exc, failed,
                   cleanupRuns, response, transcript_content, analysis_content>>

\* Variant of HandleException: the handler logs the error and does not re-raise
HandleExceptionSwallows(i) ==
    /\ At(i, "Except")
    /\ exc[i] # "CalledProcessError"
    /\ Logged(i, "error: error during transcription or analysis process")
    /\ exc' = [exc EXCEPT ![i] = "None"]
    /\ pc' = [pc EXCEPT ![i] = "Finally"]
    /\ UNCHANGED <<active, event, environ, paths, fs, out, effects, failed,
                   cleanupRuns, response, transcript_content, analysis_content>>

\* Variant of HandleException: the handler deletes what the run has uploaded
HandleExceptionRollsBack(i) ==
    /\ At(i, "Except")
    /\ exc[i] # "CalledProcessError"
    /\ Logged(i, "error: error during transcription or analysis process")
    /\ out' = EmptyMap
    /\ pc' = [pc EXCEPT ![i] = "Finally"]
    /\ UNCHANGED <<active, event, environ, paths, fs, effects, exc, failed,
                   cleanupRuns, response, transcript_content, analysis_content>>

\* lines 207-209: log and re-raise
HandleException(i) ==
    /\ At(i, "Except")
    /\ exc[i] # "CalledProcessError"
    /\ Logged(i, "error: error during transcription or analysis process")
    /\ pc' = [pc EXCEPT ![i] = "Finally"]
    /\ UNCHANGED <<active, event, environ, paths, fs, out, effects, exc, failed,
                   cleanupRuns, response, transcript_content, analysis_content>>

\* Variant of Cleanup: only the video file is removed
CleanupSkipsAudio(i) ==
    LET video == paths[i].local_video_path
        videoExists == Exists(fs, video)
        videoRaises == videoExists /\ IsDirectory(video)
    IN  /\ At(i, "Finally")
        /\ cleanupRuns' = [cleanupRuns EXCEPT ![i] = @ + 1]
        /\ fs' = IF videoExists /\ ~videoRaises THEN RemoveFile(fs, video) ELSE fs
        /\ effects' = [effects EXCEPT ![i] =
                          @ \o (IF videoExists THEN <<Effect("remove", video)>> ELSE <<>>)]
        /\ exc' = [exc EXCEPT ![i] = IF videoRaises THEN "IsADirectoryError" ELSE @]
        /\ failed' = [failed EXCEPT ![i] = IF videoRaises /\ @ = "None" THEN "Cleanup" ELSE @]
        /\ pc' = [pc EXCEPT ![i] = IF exc'[i] = "None" THEN "Done" ELSE "Failed"]
        /\ UNCHANGED <<active, event, environ, paths, out, log, response,
                       transcript_content, analysis_content>>

\* lines 210-217: the finally block; os.remove of a directory raises, and that
\* error replaces the one in flight and skips the rest of the block
Cleanup(i) ==
    LET video == paths[i].local_video_path
        audio == paths[i].local_audio_path
        videoExists == Exists(fs, video)
        videoRaises == videoExists /\ IsDirectory(video)
        fs1 == IF videoExists /\ ~videoRaises THEN RemoveFile(fs, video) ELSE fs
        audioExists == ~videoRaises /\ Exists(fs1, audio)
        audioRaises == audioExists /\ IsDirectory(audio)
        fs2 == IF audioExists /\ ~audioRaises THEN RemoveFile(fs1, audio) ELSE fs1
        removes == (IF videoExists THEN <<Effect("remove", video)>> ELSE <<>>)
                   \o (IF audioExists THEN <<Effect("remove", audio)>> ELSE <<>>)
        raises == videoRaises \/ audioRaises
    IN  /\ At(i, "Finally")
        /\ cleanupRuns' = [cleanupRuns EXCEPT ![i] = @ + 1]
        /\ fs' = fs2
        /\ effects' = [effects EXCEPT ![i] = @ \o removes]
        /\ exc' = [exc EXCEPT ![i] = IF raises THEN "IsADirectoryError" ELSE @]
        /\ failed' = [failed EXCEPT ![i] = IF raises /\ @ = "None" THEN "Cleanup" ELSE @]
        /\ pc' = [pc EXCEPT ![i] = IF exc'[i] = "None" THEN "Done" ELSE "Failed"]
        /\ UNCHANGED <<active, event, environ, paths, out, log, response,
                       transcript_content, analysis_content>>

\* The state in which operation.result has just returned, for the event
\* {bucket: "in", name: "clip1.mp4", contentType: "video/mp4"}, with every
\* response up to the size bound
InitReconstruct ==
    LET name == Clip1 \o <<".", "m", "p", "4">>
        p == ResolvePaths(name)
    IN  /\ active = {1}
        /\ event = [i \in active |->
                      [bucket |-> "in", name |-> name,
                       contentType |-> <<"v", "i", "d", "e", "o", "/", "m", "p", "4">>]]
        /\ environ = [i \in active |->
                        ("GEMINI_API_KEY" :> "secret") @@ ("INPUT_VIDEO_BUCKET" :> "in")]
        /\ pc = [i \in active |-> "Reconstruct"]
        /\ paths = [i \in active |-> p]
        /\ fs = WriteFile(WriteFile(EmptyMap, p.local_video_path, "video"),
                          p.local_audio_path, "flac")
        /\ out = WriteFile(EmptyMap, p.gcs_audio_path, "flac")
        /\ effects = [i \in active |->
                        << Effect("download", p.local_video_path),
                           Effect("ffmpeg", p.local_audio_path),
                           Effect("upload", p.gcs_audio_path),
                           Effect("recognize", p.gcs_audio_path) >>]
        /\ exc = [i \in active |-> "None"]
        /\ failed = [i \in active |-> "None"]
        /\ cleanupRuns = [i \in active |-> 0]
        /\ response \in [active -> Responses]
        /\ log = [i \in active |->
                    IF response[i] = <<>>
                    THEN <<"warning: Speech-to-Text API returned no transcription results">>
                    ELSE <<>>]
        /\ transcript_content = [i \in active |-> ""]
        /\ analysis_content = [i \in active |-> ""]

\* one step of invocation i
Run(i) ==
    \/ CheckCredential(i)
    \/ CheckBucket(i)
    \/ CheckContentType(i)
    \/ ConstructPaths(i)
    \/ Download(i)
    \/ Transcode(i)
    \/ UploadAudio(i)
    \/ Recognize(i)
    \/ Reconstruct(i)
    \/ UploadTranscript(i)
    \/ Analyze(i)
    \/ UploadAnalysis(i)
    \/ HandleCalledProcessError(i)
    \/ HandleException(i)
    \/ Cleanup(i)

Next == \E i \in Invocations : Run(i)

\* reconstruction and upload of the transcript, from InitReconstruct
NextReconstruct == \E i \in Invocations : Reconstruct(i) \/ UploadTranscript(i)

\* Object names built from parts: any number of directory segments, a base
\* identifier (no "/", not made of dots only) and an extension (no "/", no ".")
MaxPart == 2

SeqsUpTo(S, n) == UNION {[1..k -> S] : k \in 1..n}

DirectorySegments ==
    { <<"d", "/">>, <<"d", ".", "e", "/">>, <<"c", "a", "l", "l", "s", "/">> }

RECURSIVE DirectoryPrefixes(_)
DirectoryPrefixes(n) ==
    IF n = 0 THEN {<<>>}
    ELSE LET shorter == DirectoryPrefixes(n - 1)
         IN  shorter \cup {p \o s : p \in shorter, s \in DirectorySegments}

AllDirectoryPrefixes == DirectoryPrefixes(MaxPart)

BaseIdentifiers ==
    {b \in SeqsUpTo({"c", "."}, MaxPart) : \E k \in 1..Len(b) : b[k] # "."} \cup {Clip1}

Extensions == SeqsUpTo({"m", "4"}, MaxPart) \cup {<<"m", "p", "4">>}

ObjectNames ==
    { d \o b \o <<".">> \o e :
        d \in AllDirectoryPrefixes, b \in BaseIdentifiers, e \in Extensions }

\* The state in which the checks of lines 41-53 have passed, for every object
\* name built from parts
InitPaths ==
    /\ active = {1}
    /\ event \in [active -> [bucket : {"in"}, name : ObjectNames,
                              contentType : {<<"v", "i", "d", "e", "o", "/", "m", "p", "4">>}]]
    /\ environ = [i \in active |->
                    ("GEMINI_API_KEY" :> "secret") @@ ("INPUT_VIDEO_BUCKET" :> "in")]
    /\ pc = [i \in active |-> "ConstructPaths"]
    /\ paths = [i \in active |-> NoPaths]
    /\ fs = EmptyMap
    /\ out = EmptyMap
    /\ effects = [i \in active |-> <<>>]
    /\ exc = [i \in active |-> "None"]
    /\ failed = [i \in active |-> "None"]
    /\ cleanupRuns = [i \in active |-> 0]
    /\ log = [i \in active |-> <<>>]
    /\ response = [i \in active |-> <<>>]
    /\ transcript_content = [i \in active |-> ""]
    /\ analysis_content = [i \in active |-> ""]

\* path construction and the first stage that uses the paths
NextPaths == \E i \in Invocations : ConstructPaths(i) \/ Download(i)

SpecPaths == InitPaths /\ [][NextPaths]_vars

\* Two invocations served at the same time by one instance: they share the
\* file system under TEMP_DIR (line 39) and the buckets. Both events pass the
\* checks of lines 41-53; the object names cover equal and different base names.
ConcurrentNames ==
    { Clip1 \o <<".", "m", "p", "4">>,
      <<"c", "a", "l", "l", "s", "/">> \o Clip1 \o <<".", "m", "p", "4">>,
      <<"b", ".", "m", "p", "4">> }

InitConcurrent ==
    /\ active = Invocations
    /\ event \in [active -> [bucket : {"in"}, name : ConcurrentNames,
                              contentType : {<<"v", "i", "d", "e", "o", "/", "m", "p", "4">>}]]
    /\ environ = [i \in active |->
                    ("GEMINI_API_KEY" :> "secret") @@ ("INPUT_VIDEO_BUCKET" :> "in")]
    /\ pc = [i \in active |-> "CheckCredential"]
    /\ paths = [i \in active |-> NoPaths]
    /\ fs = EmptyMap
    /\ out = EmptyMap
    /\ effects = [i \in active |-> <<>>]
    /\ exc = [i \in active |-> "None"]
    /\ failed = [i \in active |-> "None"]
    /\ cleanupRuns = [i \in active |-> 0]
    /\ log = [i \in active |-> <<>>]
    /\ response = [i \in active |-> <<>>]
    /\ transcript_content = [i \in active |-> ""]
    /\ analysis_content = [i \in active |-> ""]

SpecConcurrent == InitConcurrent /\ [][Next]_vars

SpecReconstruct == InitReconstruct /\ [][NextReconstruct]_vars

Spec == Init /\ [][Next]_vars

\* The function is one sequential task: the interpreter executes its next
\* statement, and every collaborator call returns or raises.
SpecFair == Init /\ [][Next]_vars /\ WF_vars(Next)

----------------------------------------------------------------------------
(* What the properties below read off a state                               *)

IsCall(e) == e.op # "remove"

\* the collaborator calls invocation i has made, in order (os.remove is local)
Calls(i) == SelectSeq(effects[i], IsCall)

HasEffect(i, op, target) ==
    \E k \in 1..Len(effects[i]) : effects[i][k] = Effect(op, target)

DownloadAttempted(i) == \E k \in 1..Len(effects[i]) : effects[i][k].op = "download"

\* the event's content type begins with "video/"
ContentTypeIsVideo(i) ==
    LET ct == event[i].contentType
    IN  Len(ct) >= Len(VideoPrefix) /\ \A k \in 1..Len(VideoPrefix) : ct[k] = VideoPrefix[k]

\* the event's bucket is the configured input bucket
BucketIsInputBucket(i) == event[i].bucket = INPUT_VIDEO_BUCKET(i)

\* the LLM credential is absent or empty
CredentialAbsentOrEmpty(i) ==
    ("GEMINI_API_KEY" \in DOMAIN environ[i]) => environ[i]["GEMINI_API_KEY"] = ""

\* the position of a collaborator call in the order download, transcode, audio
\* upload, recognition, transcript upload, LLM analysis, analysis upload
StageOf(i, e) ==
    CASE e.op = "download" -> 1
      [] e.op = "ffmpeg" -> 2
      [] e = Effect("upload", paths[i].gcs_audio_path) -> 3
      [] e.op = "recognize" -> 4
      [] e = Effect("upload", paths[i].gcs_transcript_path) -> 5
      [] e.op = "llm" -> 6
      [] e = Effect("upload", paths[i].gcs_analysis_path) -> 7
      [] OTHER -> 0

CallsInOrder(i) == \A k \in 1..Len(Calls(i)) : StageOf(i, Calls(i)[k]) = k

PcOrder ==
    << "CheckCredential", "CheckBucket", "CheckContentType", "ConstructPaths", "Download",
       "Transcode", "UploadAudio", "Recognize", "Reconstruct", "UploadTranscript",
       "Analyze", "UploadAnalysis", "Except", "Finally" >>

PcRank(label) ==
    IF label \in Terminal THEN Len(PcOrder) + 1
    ELSE CHOOSE k \in 1..Len(PcOrder) : PcOrder[k] = label

ValidationLabels == {"CheckCredential", "CheckBucket", "CheckContentType"}

----------------------------------------------------------------------------
(* Properties                                                               *)

\* C1: when an invocation that attempted the download has ended, in Done or in
\* Failed at whatever stage, neither its local video file nor its local audio
\* file exists.
C1_ScratchFilesAbsentAtEnd ==
    \A i \in active :
        (pc[i] \in {"Done", "Failed"} /\ DownloadAttempted(i))
            => /\ paths[i].local_video_path \notin DOMAIN fs
               /\ paths[i].local_audio_path \notin DOMAIN fs

\* a run that failed at the LLM analysis and had both scratch files to remove
C1_Witness ==
    \E i \in active :
        /\ pc[i] = "Failed"
        /\ failed[i] = "Analyze"
        /\ HasEffect(i, "remove", paths[i].local_video_path)
        /\ HasEffect(i, "remove", paths[i].local_audio_path)

\* C2 as stated: on every exit path, the skips and the validation failure
\* included, the cleanup step has run exactly once.
C2_CleanupOnEveryExit ==
    \A i \in active : pc[i] \in Terminal => cleanupRuns[i] = 1

\* C2 as amended: the cleanup step never runs twice; an invocation that passed
\* validation and attempted the download has run it exactly once when it ends,
\* in Done or in Failed; an invocation that ended in a skip or in the credential
\* failure has not run it.
C2_CleanupOncePerGuardedRun ==
    \A i \in active :
        /\ cleanupRuns[i] <= 1
        /\ pc[i] \in Terminal =>
              cleanupRuns[i] = (IF DownloadAttempted(i) THEN 1 ELSE 0)

\* a run that failed at recognition and was cleaned up once
C2_Witness ==
    \E i \in active :
        pc[i] = "Failed" /\ failed[i] = "Recognize" /\ cleanupRuns[i] = 1

\* C3: every step moves an invocation forward; its collaborator calls are, in
\* order, download, transcode, audio upload, recognition, transcript upload,
\* LLM analysis, analysis upload; once a stage has failed no further
\* collaborator call is made.
C3_StagesRunForward ==
    [][\A i \in active :
          /\ pc'[i] # pc[i] => PcRank(pc'[i]) > PcRank(pc[i])
          /\ pc'[i] = pc[i] => effects'[i] = effects[i]
          /\ CallsInOrder(i)'
          /\ failed[i] # "None" => Calls(i)' = Calls(i)]_vars

\* a run whose transcoder failed and that ended after two calls
C3_Witness ==
    \E i \in active :
        pc[i] = "Failed" /\ failed[i] = "Transcode" /\ Len(Calls(i)) = 2

\* C4: once a stage has failed an error stays in flight and the invocation can
\* only end in Failed; Failed always carries an error; Done is reached only
\* with no failure and with the audio, the transcript and the analysis
\* uploaded; an invocation that has not ended can always take a step.
C4_FailureIsSignaled ==
    \A i \in active :
        /\ failed[i] # "None" => (exc[i] # "None" /\ pc[i] \notin {"Done", "Skipped"})
        /\ pc[i] = "Failed" => exc[i] # "None"
        /\ pc[i] = "Done" =>
              /\ failed[i] = "None" /\ exc[i] = "None"
              /\ \A key \in { paths[i].gcs_audio_path, paths[i].gcs_transcript_path,
                              paths[i].gcs_analysis_path } :
                    HasEffect(i, "upload", key) /\ key \in DOMAIN out
        /\ pc[i] \notin Terminal => ENABLED Run(i)

\* a run whose transcript upload failed: audio uploaded, error raised
C4_Witness ==
    \E i \in active :
        /\ pc[i] = "Failed"
        /\ failed[i] = "UploadTranscript"
        /\ exc[i] = "StorageError"
        /\ paths[i].gcs_audio_path \in DOMAIN out

\* C5: an invocation whose content type does not begin with "video/" makes no
\* upload, no transcoder, no recognition and no LLM call, and writes nothing
\* to the output bucket.
C5_NonVideoWritesNothing ==
    \A i \in active :
        ~ContentTypeIsVideo(i) =>
            /\ \A k \in 1..Len(effects[i]) :
                  effects[i][k].op \notin {"upload", "ffmpeg", "recognize", "llm"}
            /\ active = {i} => out = EmptyMap

\* a run from the input bucket, with a credential, skipped for its content type
C5_Witness ==
    \E i \in active :
        /\ pc[i] = "Skipped"
        /\ ~ContentTypeIsVideo(i)
        /\ BucketIsInputBucket(i)
        /\ ~CredentialAbsentOrEmpty(i)

\* C6: an invocation whose bucket differs from the configured input bucket has
\* no side effect: no collaborator call, no file created or removed, no
\* cleanup, no path derived, nothing in the scratch directory or the output
\* bucket.
C6_WrongBucketNoSideEffects ==
    \A i \in active :
        ~BucketIsInputBucket(i) =>
            /\ effects[i] = <<>>
            /\ cleanupRuns[i] = 0
            /\ paths[i] = NoPaths
            /\ active = {i} => (fs = EmptyMap /\ out = EmptyMap)

\* a video from another bucket, with a credential, skipped
C6_Witness ==
    \E i \in active :
        /\ pc[i] = "Skipped"
        /\ ~BucketIsInputBucket(i)
        /\ ContentTypeIsVideo(i)
        /\ ~CredentialAbsentOrEmpty(i)

\* C7 as stated: whatever the run configuration, an event from another bucket
\* or with a non-video content type is skipped without an error.
C7_SkipIsNeverAnError ==
    \A i \in active :
        (~BucketIsInputBucket(i) \/ ~ContentTypeIsVideo(i)) =>
            /\ exc[i] = "None"
            /\ pc[i] \in ValidationLabels \cup {"Skipped"}

\* C7 as amended: when the LLM credential is set and not empty, an event from
\* another bucket or with a non-video content type is skipped without an
\* error: no error is raised, the run never leaves validation except to
\* return normally, and nothing has failed.
C7_SkipIsNotAnErrorWithCredential ==
    \A i \in active :
        (~CredentialAbsentOrEmpty(i) /\ (~BucketIsInputBucket(i) \/ ~ContentTypeIsVideo(i))) =>
            /\ exc[i] = "None"
            /\ failed[i] = "None"
            /\ pc[i] \in ValidationLabels \cup {"Skipped"}
            /\ pc[i] # "Skipped" => ENABLED Run(i)

\* an event that is both from another bucket and not a video, skipped
C7_Witness ==
    \E i \in active :
        /\ pc[i] = "Skipped"
        /\ ~BucketIsInputBucket(i)
        /\ ~ContentTypeIsVideo(i)
        /\ ~CredentialAbsentOrEmpty(i)
        /\ exc[i] = "None"

\* C8: with the LLM credential absent or empty the invocation goes from its
\* first check straight to Failed with the validation error: no collaborator
\* call, no path derived, no stage entered.
C8_MissingCredentialAbortsFirst ==
    \A i \in active :
        CredentialAbsentOrEmpty(i) =>
            /\ pc[i] \in {"CheckCredential", "Failed"}
            /\ pc[i] = "Failed" => (exc[i] = "ValueError" /\ failed[i] = "CheckCredential")
            /\ effects[i] = <<>>
            /\ paths[i] = NoPaths
            /\ cleanupRuns[i] = 0

\* a video from the input bucket, rejected because the credential is empty
C8_Witness ==
    \E i \in active :
        /\ pc[i] = "Failed"
        /\ "GEMINI_API_KEY" \in DOMAIN environ[i]
        /\ environ[i]["GEMINI_API_KEY"] = ""
        /\ BucketIsInputBucket(i)
        /\ ContentTypeIsVideo(i)

\* every word of the response, in per-result, per-word order
RECURSIVE AllWords(_)
AllWords(results) ==
    IF results = <<>> THEN <<>> ELSE Head(results).words \o AllWords(Tail(results))

\* the words tagged tag, in the order of flat
WordsOfTag(flat, tag) ==
    LET tagged == SelectSeq(flat, LAMBDA w : w.speaker_tag = tag)
    IN  [k \in 1..Len(tagged) |-> tagged[k].word]

\* one "Speaker <tag>: <words>" line for each tag from..upto that tags a word of
\* flat, by ascending tag
RECURSIVE SpeakerLines(_, _, _)
SpeakerLines(flat, from, upto) ==
    IF from > upto THEN ""
    ELSE (IF \E k \in 1..Len(flat) : flat[k].speaker_tag = from
          THEN "Speaker " \o IntToStr(from) \o ": " \o Join(WordsOfTag(flat, from)) \o "\n"
          ELSE "")
         \o SpeakerLines(flat, from + 1, upto)

ExpectedSpeakerLines(results) ==
    LET flat == AllWords(results)
        tags == {flat[k].speaker_tag : k \in 1..Len(flat)}
    IN  IF tags = {} THEN ""
        ELSE SpeakerLines(flat, 0, CHOOSE t \in tags : \A u \in tags : u <= t)

\* the top-alternative transcripts of the word-less results, one per line
RECURSIVE RawLines(_)
RawLines(results) ==
    IF results = <<>> THEN ""
    ELSE (IF Head(results).words = <<>> THEN Head(results).transcript \o "\n" ELSE "")
         \o RawLines(Tail(results))

EveryResultTagged(results) == \A k \in 1..Len(results) : results[k].words # <<>>

SomeTaggedSomeNot(results) ==
    /\ \E k \in 1..Len(results) : results[k].words # <<>>
    /\ \E k \in 1..Len(results) : results[k].words = <<>>

\* the transcript invocation i emitted: the local after line 148, and the
\* object under transcripts/ once it is uploaded
Emitted(i, text) ==
    /\ pc[i] = "UploadTranscript" => transcript_content[i] = text
    /\ (pc[i] = "Analyze" /\ active = {i}) => out[paths[i].gcs_transcript_path] = text

SpecExampleResponse ==
    << Worded(<<WordInfo("hello", 1), WordInfo("there", 1)>>),
       Worded(<<WordInfo("hi", 2)>>) >>

\* C9: when every result carries word-level speaker tags, the emitted
\* transcript is one "Speaker <tag>: <words>" line per distinct tag, by
\* ascending tag, the words of a tag space-joined in per-result, per-word
\* order; the two-result example gives "Speaker 1: hello there\nSpeaker 2: hi\n".
C9_TaggedResultsGiveSpeakerLines ==
    \A i \in active :
        /\ EveryResultTagged(response[i]) => Emitted(i, ExpectedSpeakerLines(response[i]))
        /\ response[i] = SpecExampleResponse =>
              Emitted(i, "Speaker 1: hello there\nSpeaker 2: hi\n")

\* the example's transcript, uploaded
C9_Witness ==
    \E i \in active :
        /\ pc[i] = "Analyze"
        /\ response[i] = SpecExampleResponse
        /\ out[paths[i].gcs_transcript_path] = "Speaker 1: hello there\nSpeaker 2: hi\n"

\* C10 as stated: when some results carry word-level speaker tags and others
\* carry none, the emitted transcript is the Speaker lines alone.
C10_FallbackTextDiscarded ==
    \A i \in active :
        SomeTaggedSomeNot(response[i]) => Emitted(i, ExpectedSpeakerLines(response[i]))

\* C10 as amended: when some results carry word-level speaker tags and others
\* carry none, the emitted transcript is the raw transcripts of the word-less
\* results, one per line in result order, followed by the Speaker lines; the
\* fallback text is kept.
C10_FallbackTextPrecedesSpeakerLines ==
    \A i \in active :
        SomeTaggedSomeNot(response[i]) =>
            Emitted(i, RawLines(response[i]) \o ExpectedSpeakerLines(response[i]))

\* a raw result between two tagged ones, reconstructed
C10_Witness ==
    \E i \in active :
        /\ pc[i] = "UploadTranscript"
        /\ response[i] = << Worded(<<WordInfo("hi", 2)>>), Raw("good morning"),
                            Worded(<<WordInfo("hello", 1)>>) >>
        /\ transcript_content[i] = "good morning\nSpeaker 1: hello\nSpeaker 2: hi\n"


\* the top-alternative transcripts of results first..Len(results), each
\* followed by a newline
RECURSIVE TranscriptLinesFrom(_, _)
TranscriptLinesFrom(results, first) ==
    IF first > Len(results) THEN ""
    ELSE results[first].transcript \o "\n" \o TranscriptLinesFrom(results, first + 1)

NoResultTagged(results) == \A k \in 1..Len(results) : results[k].words = <<>>

\* C11: when the response is not empty and no result carries word-level tags,
\* the emitted transcript is the results' top-alternative transcripts in
\* result order, one per line: no Speaker line, nothing reordered, repeated
\* or dropped.
C11_UntaggedResultsGiveRawLines ==
    \A i \in active :
        (response[i] # <<>> /\ NoResultTagged(response[i])) =>
            Emitted(i, TranscriptLinesFrom(response[i], 1))

\* three raw results, two of them alike, reconstructed in their order
C11_Witness ==
    \E i \in active :
        /\ pc[i] = "UploadTranscript"
        /\ response[i] = <<Raw("good morning"), Raw(""), Raw("good morning")>>
        /\ transcript_content[i] = "good morning\n\ngood morning\n"


\* operation.result returned a response to invocation i
RecognitionReturned(i) ==
    \/ pc[i] \in {"Reconstruct", "UploadTranscript", "Analyze", "UploadAnalysis", "Done"}
    \/ failed[i] \in {"UploadTranscript", "Analyze", "UploadAnalysis"}

\* invocation i is past the reconstruction of lines 126-156
ReconstructionDone(i) == RecognitionReturned(i) /\ pc[i] # "Reconstruct"

NoResultsLine == "warning: Speech-to-Text API returned no transcription results"

EmptyTranscriptLine == "error: final transcript_content is empty"

LogCount(i, line) == Cardinality({k \in 1..Len(log[i]) : log[i][k] = line})

\* C12: when the recognition response holds no result, the transcript is the
\* empty string and the "no results" condition is logged as a line of its
\* own, once, apart from the line that reports an empty transcript; a response
\* that holds results never logs the "no results" line.
C12_EmptyResponseLoggedAndEmpty ==
    \A i \in active :
        /\ (RecognitionReturned(i) /\ response[i] = <<>>) =>
                LogCount(i, NoResultsLine) = 1
        /\ (RecognitionReturned(i) /\ response[i] # <<>>) =>
                LogCount(i, NoResultsLine) = 0
        /\ (ReconstructionDone(i) /\ response[i] = <<>>) =>
                /\ transcript_content[i] = ""
                /\ LogCount(i, EmptyTranscriptLine) = 1
                /\ NoResultsLine # EmptyTranscriptLine
        /\ (pc[i] = "Done" /\ response[i] = <<>>) =>
                out[paths[i].gcs_transcript_path] = ""

\* a run that got an empty response, logged both lines in order and uploaded
\* the empty transcript
C12_Witness ==
    \E i \in active :
        /\ pc[i] = "Analyze"
        /\ response[i] = <<>>
        /\ transcript_content[i] = ""
        /\ log[i] = <<NoResultsLine, EmptyTranscriptLine>>
        /\ out[paths[i].gcs_transcript_path] = ""


\* the scratch files the next step of invocation j writes, reads or deletes
Touched(j) ==
    CASE pc[j] = "Download" -> {paths[j].local_video_path}
      [] pc[j] = "Transcode" -> {paths[j].local_video_path, paths[j].local_audio_path}
      [] pc[j] = "UploadAudio" -> {paths[j].local_audio_path}
      [] pc[j] = "Finally" -> {paths[j].local_video_path, paths[j].local_audio_path}
      [] OTHER -> {}

\* the scratch files invocation i created and has yet to read: the video it
\* downloaded, until the transcoder ran; the audio, until it is uploaded
StillNeeded(i) ==
    CASE pc[i] = "Transcode" -> {paths[i].local_video_path}
      [] pc[i] = "UploadAudio" -> {paths[i].local_audio_path}
      [] OTHER -> {}

\* C13: of two invocations running at the same time, no step of one writes,
\* reads or deletes a scratch file the other created and still needs, and
\* such a file stays in place with its content, whatever the two events are.
C13_ScratchFilesArePrivate ==
    [][ \A i, j \in Invocations :
            (i # j /\ i \in active /\ j \in active /\ pc'[j] # pc[j]) =>
                /\ Touched(j) \cap StillNeeded(i) = {}
                /\ \A path \in StillNeeded(i) :
                        path \in DOMAIN fs =>
                            (path \in DOMAIN fs' /\ fs'[path] = fs[path]) ]_vars


\* the three output keys for a base identifier
KeysOf(base) ==
    [ gcs_audio_path      |-> <<"a", "u", "d", "i", "o", "/">> \o base
                                \o <<".", "f", "l", "a", "c">>,
      gcs_transcript_path |-> <<"t", "r", "a", "n", "s", "c", "r", "i", "p", "t", "s", "/">>
                                \o base \o <<".", "t", "x", "t">>,
      gcs_analysis_path   |-> <<"a", "n", "a", "l", "y", "s", "i", "s", "/">> \o base
                                \o <<"_", "a", "n", "a", "l", "y", "s", "i", "s", ".", "t", "x", "t">> ]

HasKeys(i, keys) ==
    /\ paths[i].gcs_audio_path = keys.gcs_audio_path
    /\ paths[i].gcs_transcript_path = keys.gcs_transcript_path
    /\ paths[i].gcs_analysis_path = keys.gcs_analysis_path

\* C14: for an object name made of directory segments (possibly none), a base
\* identifier and an extension, the output keys are audio/<base>.flac,
\* transcripts/<base>.txt and analysis/<base>_analysis.txt, with the directory
\* segments and the extension gone; they are set before any stage has run
\* and stay as set afterwards. A base identifier has no "/" and at least one
\* character other than ".".
C14_KeysFromBaseIdentifier ==
    \A i \in active :
        /\ pc[i] = "ConstructPaths" => (effects[i] = <<>> /\ paths[i] = NoPaths)
        /\ pc[i] # "ConstructPaths" =>
              \A b \in BaseIdentifiers, e \in Extensions :
                  LET name == event[i].name
                      tail == b \o <<".">> \o e
                      cut == Len(name) - Len(tail)
                  IN  (/\ cut >= 0
                       /\ SubSeq(name, cut + 1, Len(name)) = tail
                       /\ SubSeq(name, 1, cut) \in AllDirectoryPrefixes) =>
                          HasKeys(i, KeysOf(b))
        /\ (pc[i] # "ConstructPaths" /\ Basename(event[i].name) = Clip1 \o <<".", "m", "p", "4">>) =>
              /\ paths[i].gcs_audio_path
                    = <<"a", "u", "d", "i", "o", "/", "c", "l", "i", "p", "1", ".", "f", "l", "a", "c">>
              /\ paths[i].gcs_transcript_path
                    = <<"t", "r", "a", "n", "s", "c", "r", "i", "p", "t", "s", "/",
                        "c", "l", "i", "p", "1", ".", "t", "x", "t">>
              /\ paths[i].gcs_analysis_path
                    = <<"a", "n", "a", "l", "y", "s", "i", "s", "/", "c", "l", "i", "p", "1",
                        "_", "a", "n", "a", "l", "y", "s", "i", "s", ".", "t", "x", "t">>

\* the download has run for d/d.e/.c.m4: two directory segments, one with a
\* dot, and a base identifier that starts with a dot
C14_Witness ==
    \E i \in active :
        /\ pc[i] = "Transcode"
        /\ event[i].name = <<"d", "/", "d", ".", "e", "/", ".", "c", ".", "m", "4">>
        /\ paths[i].gcs_audio_path = <<"a", "u", "d", "i", "o", "/", ".", "c", ".", "f", "l", "a", "c">>


\* an object name with nothing to name a file by: empty, or ending in "/"
Malformed(file_name) == file_name = <<>> \/ file_name[Len(file_name)] = "/"

\* invocation i is past the path construction of lines 55-61
PathsResolved(i) ==
    /\ pc[i] \notin ValidationLabels \cup {"ConstructPaths", "Skipped"}
    /\ failed[i] # "CheckCredential"

\* C15: path resolution fails in one way only: for an empty or malformed
\* object name it signals ValidationError, and the run makes no download with
\* paths derived from that name; for every other name it succeeds and has
\* no side effect.
C15_MalformedNameIsRejected ==
    \A i \in active :
        /\ Malformed(event[i].name) =>
              /\ ~DownloadAttempted(i)
              /\ PathsResolved(i) => (pc[i] = "Failed" /\ exc[i] = "ValidationError")
        /\ (~Malformed(event[i].name) /\ pc[i] = "Download") =>
              /\ exc[i] = "None"
              /\ effects[i] = <<>>
              /\ fs = EmptyMap
              /\ out = EmptyMap


OpCount(i, op) == Cardinality({k \in 1..Len(effects[i]) : effects[i][k].op = op})

IsUpload(e) == e.op = "upload"

\* the keys invocation i uploaded to, in order
Uploads(i) ==
    LET ups == SelectSeq(effects[i], IsUpload)
    IN  [k \in 1..Len(ups) |-> ups[k].target]

\* C16: no stage is retried. An invocation makes at most one download, one
\* transcoder run, one recognition request, one LLM request and one upload
\* per key; a run that ends in Done made exactly one of each and exactly
\* three uploads, to the audio, transcript and analysis keys in that order.
C16_EachOperationAtMostOnce ==
    \A i \in active :
        /\ \A op \in {"download", "ffmpeg", "recognize", "llm"} : OpCount(i, op) <= 1
        /\ \A k, l \in 1..Len(Uploads(i)) : Uploads(i)[k] = Uploads(i)[l] => k = l
        /\ Len(Uploads(i)) <= 3
        /\ pc[i] = "Done" =>
              /\ \A op \in {"download", "ffmpeg", "recognize", "llm"} : OpCount(i, op) = 1
              /\ Uploads(i) = << paths[i].gcs_audio_path, paths[i].gcs_transcript_path,
                                 paths[i].gcs_analysis_path >>

\* a finished run with its one download and its three uploads
C16_Witness ==
    \E i \in active :
        /\ pc[i] = "Done"
        /\ OpCount(i, "download") = 1
        /\ Len(Uploads(i)) = 3


\* the errors each stage raises itself
StageErrors(stage) ==
    CASE stage = "CheckCredential" -> {"ValueError"}
      [] stage = "Download" -> {"StorageError", "IsADirectoryError"}
      [] stage = "Transcode" -> {"CalledProcessError", "FileNotFoundError"}
      [] stage = "UploadAudio" -> {"StorageError", "FileNotFoundError"}
      [] stage = "Recognize" -> {"RecognitionError", "TimeoutError"}
      [] stage \in {"UploadTranscript", "UploadAnalysis"} -> {"StorageError"}
      [] stage = "Analyze" -> {"AnalysisError"}
      [] OTHER -> {}

\* the transcoder exited with a non-zero status (line 90 logged it)
TranscoderExitedNonZero(i) ==
    \E k \in 1..Len(log[i]) : log[i][k] = "error: FFmpeg command failed"

\* C17: the error a failed run hands to the runtime is the error of the stage
\* that failed, not another one raised while that error was handled; when
\* the transcoder exits non-zero, the run ends with CalledProcessError and
\* has uploaded nothing.
C17_FailingStageErrorReachesRuntime ==
    \A i \in active :
        /\ (pc[i] = "Failed" /\ failed[i] # "Cleanup") => exc[i] \in StageErrors(failed[i])
        /\ (pc[i] = "Failed" /\ TranscoderExitedNonZero(i)) =>
              /\ exc[i] = "CalledProcessError"
              /\ Uploads(i) = <<>>


EmptyAudioLine == "warning: FFmpeg extracted an empty audio file"

InLog(i, line) == \E k \in 1..Len(log[i]) : log[i][k] = line

\* what a state shows of C18: a degraded condition is not a failure of the
\* stage that met it, and a run that ended with no stage having raised is
\* Done with its three artifacts stored
DegradedIsNotFatal(i) ==
    /\ InLog(i, EmptyAudioLine) => failed[i] # "Transcode"
    /\ InLog(i, NoResultsLine) => failed[i] \notin {"Recognize", "Reconstruct"}
    /\ InLog(i, EmptyTranscriptLine) => failed[i] # "Reconstruct"
    /\ pc[i] = "Failed" => exc[i] # "None" /\ failed[i] # "None"
    /\ (pc[i] \in Terminal /\ failed[i] = "None" /\ DownloadAttempted(i)) =>
          /\ pc[i] = "Done"
          /\ { paths[i].gcs_audio_path, paths[i].gcs_transcript_path,
               paths[i].gcs_analysis_path } \subseteq DOMAIN out
          /\ out[paths[i].gcs_transcript_path] = transcript_content[i]
          /\ out[paths[i].gcs_analysis_path] = analysis_content[i]

\* C18: a zero-byte audio file produced with exit status 0, an empty
\* recognition response and an empty transcript never make the run fail; a
\* run in which no collaborator call fails goes through every remaining
\* stage and ends in Done with audio, transcript and analysis uploaded; and
\* every run ends.
C18_DegradedRunsReachDone ==
    /\ [](\A i \in active : DegradedIsNotFatal(i))
    /\ \A i \in Invocations : <>(i \in active => pc[i] \in Terminal)

\* a finished run that met all three degraded conditions
C18_Witness ==
    \E i \in active :
        /\ pc[i] = "Done"
        /\ log[i] = <<EmptyAudioLine, NoResultsLine, EmptyTranscriptLine>>
        /\ out[paths[i].gcs_audio_path] = ""
        /\ out[paths[i].gcs_transcript_path] = ""


\* the output keys of invocation i, in pipeline order
ArtifactKeys(i) ==
    <<paths[i].gcs_audio_path, paths[i].gcs_transcript_path, paths[i].gcs_analysis_path>>

\* the stored artifacts are the first n of audio, transcript, analysis
PrefixStored(i) ==
    \E n \in 0..3 : DOMAIN out = {ArtifactKeys(i)[k] : k \in 1..n}

\* C19: at every moment the artifacts an invocation has put in output storage
\* are a prefix of (audio, transcript, analysis), and no step, a failure of a
\* later stage and the cleanup included, removes or changes an artifact that
\* is stored.
C19_ArtifactsArePrefixAndStay ==
    /\ [](\A i \in active : PrefixStored(i))
    /\ [][\A key \in DOMAIN out : key \in DOMAIN out' /\ out'[key] = out[key]]_vars

\* a run that failed in the LLM stage and left audio and transcript behind
C19_Witness ==
    \E i \in active :
        /\ pc[i] = "Failed"
        /\ failed[i] = "Analyze"
        /\ DOMAIN out = {paths[i].gcs_audio_path, paths[i].gcs_transcript_path}


SecondLoopLine == "warning: diarization did not yield word-level info"

\* C20: the second fallback loop (lines 145-148) never runs. After the scan
\* of a non-empty result sequence a speaker bucket is populated or the
\* accumulated transcript is not empty, so the warning of line 146 is never
\* logged and the transcript holds the line of each word-less result once.
C20_SecondFallbackLoopUnreachable ==
    \A i \in active :
        response[i] # <<>> =>
            /\ LET st == Scanned(response[i])
               IN  DOMAIN st.speaker_transcripts # {} \/ st.transcript_content # ""
            /\ pc[i] # "Reconstruct" =>
                  /\ ~InLog(i, SecondLoopLine)
                  /\ transcript_content[i]
                        = RawLines(response[i]) \o ExpectedSpeakerLines(response[i])

\* a lone result with an empty transcript and no words: the accumulator is
\* the newline of line 139, which keeps the second loop from running
C20_Witness ==
    \E i \in active :
        /\ pc[i] = "UploadTranscript"
        /\ response[i] = <<Raw("")>>
        /\ transcript_content[i] = "\n"
        /\ log[i] = <<>>

====
